---- MODULE Spec2Model ----
(***************************************************************************)
(* PharmaGuard dashboard (src/app.py): one Streamlit script run per        *)
(* refresh.  get_data fetches the INVENTORY rows, derives a usage figure   *)
(* per row, and computes Days_Runway, Suggested_Reorder and Status; the    *)
(* script then renders the dashboard and, in the third tab, sends one      *)
(* question to the remote model and falls back to a canned answer when     *)
(* that call raises.                                                       *)
(*                                                                         *)
(* Days_Runway is a float64 in the program.  It is modelled as the reduced *)
(* fraction [num, den] (den > 0), and x/0 as pandas computes it: inf is    *)
(* 1/0, -inf is -1/0 and NaN is 0/0.  Within the bounds used here distinct *)
(* fractions are distinct doubles, and comparing a fraction with an        *)
(* integer by cross-multiplication agrees with the float comparison,       *)
(* inf and NaN included (every comparison with NaN is false).              *)
(*                                                                         *)
(* np.random.seed(42) makes the usage draws one fixed sequence; the model  *)
(* lets each draw be any value np.random.randint(low, high) can return, so *)
(* every behaviour of the program is a behaviour of the model.             *)
(***************************************************************************)
EXTENDS Integers, Sequences, FiniteSets

VARIABLES
    pc,            \* position of the script run
    df,            \* the DataFrame get_data returned (also the cached value)
    connError,     \* get_data caught an exception and wrote st.error
    cacheValid,    \* st.cache_data holds an unexpired entry for get_data
    screen,        \* the elements this run has rendered
    critical_df,   \* rows of df with Status = CRITICAL, in df's order
    question,      \* value of the text input
    prompt,        \* what was sent to the remote model
    remoteCalls,   \* run_query(cortex_query) calls made in this run
    answer,        \* the answer text written in tab3
    errorDetails   \* what the "Show Error Details" expander holds

vars == <<pc, df, connError, cacheValid, screen, critical_df, question,
          prompt, remoteCalls, answer, errorDetails>>

----------------------------------------------------------------------------
(* Bounds of the model *)

MaxRows == 2

MaxStock == 60

MaxLead == 3

(* Program constants *)

UsageThreshold == 50

SmallLow == 1

SmallHigh == 10

LargeLow == 10

LargeHigh == 50

ContextRows == 50

NULL == "NULL"

NoError == "none"

Locations == <<"Rural Clinic A", "Simikot Hospital", "Jajarkot District Hospital", "Dolpa Health Post">>

Items == <<"Insulin Vials", "Insulin", "Paracetamol", "ORS Sachets">>

----------------------------------------------------------------------------
(* Arithmetic *)

Abs(x) == IF x < 0 THEN -x ELSE x

Sign(x) == IF x < 0 THEN -1 ELSE IF x > 0 THEN 1 ELSE 0

RECURSIVE Gcd(_, _)
Gcd(a, b) == IF b = 0 THEN a ELSE Gcd(b, a % b)

\* a / b of two float64 columns
FloatDiv(a, b) ==
    IF b = 0 THEN [num |-> Sign(a), den |-> 0]
    ELSE LET g == Gcd(Abs(a), Abs(b))
             s == Sign(b)
         IN  [num |-> (s * a) \div g, den |-> (s * b) \div g]

\* float < integer
FloatLess(r, n) == r.num < n * r.den

\* (x * 1.5) for an integer x: always a multiple of one half
TimesOneAndHalf(x) == [num |-> 3 * x, den |-> 2]

\* .astype(int): truncation toward zero
AsTypeInt(r) == Sign(r.num) * (Abs(r.num) \div r.den)

----------------------------------------------------------------------------
(* Inputs *)

\* a row of SELECT LOCATION, ITEM_NAME, CURRENT_STOCK, LEAD_TIME_DAYS; the
\* i-th row of a result is the i-th (location, item) pair
RawRow(i, stock, lead) ==
    [Location |-> Locations[i], Item |-> Items[i],
     Current_Stock |-> stock, Lead_Time_Days |-> lead]

\* CURRENT_STOCK is whatever the table holds: the query does not filter it
WideStocks == (-1)..MaxStock

WideLeads == 1..MaxLead

SmallStocks == {-1, 4, 8, 12}

LargeStocks == {50, 100}

NarrowLeads == {2}

\* results of the INVENTORY query: no rows; one row over the wide ranges; a
\* row of small stock followed by one of large stock; up to MaxRows rows of
\* small stock
InventoryTables ==
    {<<>>}
    \cup {<<RawRow(1, s, l)>> : s \in WideStocks, l \in WideLeads}
    \cup {<<RawRow(1, s, l), RawRow(2, t, l)>> :
              s \in SmallStocks, t \in LargeStocks, l \in NarrowLeads}
    \cup UNION {{[i \in 1..n |-> RawRow(i, f[i][1], f[i][2])] :
                    f \in [1..n -> SmallStocks \X NarrowLeads]} : n \in 2..MaxRows}

\* results of the CORTEX.COMPLETE query: no row, a row without a column, a
\* row holding SQL NULL, an empty completion, a completion
RemoteResults == {<<>>, << <<>> >>, << <<NULL>> >>, << <<"">> >>, << <<"completion">> >>}

RemoteErrors == {"ProgrammingError"}

Questions == {"", "Which location has the most critical shortages?"}

----------------------------------------------------------------------------
(* get_data, lines 24-52 *)

\* randint with the upper end included, as random.randint has it
RandIntInclusive(low, high) == low..high

\* np.random.randint(low, high): an integer in [low, high)
RandInt(low, high) == low..(high - 1)

\* line 36: lambda x: randint(1, 10) if x < 50 else randint(10, 50)
UsageDraws(x) ==
    IF x < UsageThreshold THEN RandInt(SmallLow, SmallHigh)
    ELSE RandInt(LargeLow, LargeHigh)

\* line 39
Days_Runway(stock, usage) == FloatDiv(stock, usage)

\* the buffered demand rounded to the nearest unit instead of cut
SuggestedReorderRounded(lead, usage) == (3 * lead * usage + 1) \div 2

\* line 42
Suggested_Reorder(lead, usage) == AsTypeInt(TimesOneAndHalf(lead * usage))

\* both thresholds taken inclusive
StatusInclusive(runway, lead) ==
    IF runway.num <= lead * runway.den THEN "CRITICAL"
    ELSE IF runway.num <= lead * 2 * runway.den THEN "WARNING"
    ELSE "OK"

\* the labels of the outer np.where given in the wrong order
StatusSwapped(runway, lead) ==
    IF FloatLess(runway, lead) THEN "OK"
    ELSE IF FloatLess(runway, lead * 2) THEN "WARNING"
    ELSE "CRITICAL"

\* lines 45-46
Status(runway, lead) ==
    IF FloatLess(runway, lead) THEN "CRITICAL"
    ELSE IF FloatLess(runway, lead * 2) THEN "WARNING"
    ELSE "OK"

\* lines 36-46 on one row, given the usage drawn for it
EnrichRow(r, usage) ==
    LET runway == Days_Runway(r.Current_Stock, usage)
    IN  [Location |-> r.Location, Item |-> r.Item,
         Current_Stock |-> r.Current_Stock, Lead_Time_Days |-> r.Lead_Time_Days,
         Daily_Usage_Avg |-> usage,
         Days_Runway |-> runway,
         Suggested_Reorder |-> Suggested_Reorder(r.Lead_Time_Days, usage),
         Status |-> Status(runway, r.Lead_Time_Days)]

\* the usage column line 36 can produce: one draw per row, in row order
RECURSIVE UsageColumns(_)
UsageColumns(rows) ==
    IF rows = <<>> THEN {<<>>}
    ELSE {<<u>> \o rest : u \in UsageDraws(Head(rows).Current_Stock),
                          rest \in UsageColumns(Tail(rows))}

\* lines 31-48: the DataFrame returned for the fetched rows and usage column
Enrich(rows, usage) == [i \in 1..Len(rows) |-> EnrichRow(rows[i], usage[i])]

----------------------------------------------------------------------------
(* Script helpers *)

\* df[df['Status'] == 'CRITICAL'], line 107: a filter that keeps the order
RECURSIVE CriticalRows(_)
CriticalRows(d) ==
    IF d = <<>> THEN <<>>
    ELSE IF Head(d).Status = "CRITICAL" THEN <<Head(d)>> \o CriticalRows(Tail(d))
    ELSE CriticalRows(Tail(d))

\* DataFrame.head(n)
HeadRows(d, n) == SubSeq(d, 1, IF Len(d) < n THEN Len(d) ELSE n)

\* the text of line 169: the same sentence whatever the data holds
SimulatedAnswer ==
    [kind |-> "simulated",
     locations |-> {"Simikot Hospital", "Jajarkot District Hospital"},
     items |-> {"Insulin", "Paracetamol"},
     stocks |-> {},
     reorders |-> {}]

\* what st.write(ai_response) shows for the value of result[0][0]
RemoteAnswer(text) ==
    [kind |-> "remote", text |-> text]

NoAnswer == [kind |-> "none"]

\* elements st.stop() at line 64 leaves on the page
BlockedPage == {"conn_error", "title", "no_data_warning"}

----------------------------------------------------------------------------
(* The script run *)

Init ==
    /\ pc = "load"
    /\ df = <<>>
    /\ connError = FALSE
    /\ cacheValid = FALSE
    /\ screen = {}
    /\ critical_df = <<>>
    /\ question = ""
    /\ prompt = <<>>
    /\ remoteCalls = 0
    /\ answer = NoAnswer
    /\ errorDetails = NoError

\* line 55 with an unexpired cache entry: the stored value is returned and
\* the elements get_data wrote are replayed
GetDataCached ==
    /\ pc = "load"
    /\ cacheValid
    /\ screen' = IF connError THEN {"conn_error"} ELSE {}
    /\ pc' = "header"
    /\ UNCHANGED <<df, connError, cacheValid, critical_df, question, prompt,
                   remoteCalls, answer, errorDetails>>

\* lines 24-48 and 55: the query returns rows
GetDataFetch ==
    /\ pc = "load"
    /\ ~cacheValid
    /\ \E rows \in InventoryTables :
         \E usage \in UsageColumns(rows) :
            df' = Enrich(rows, usage)
    /\ connError' = FALSE
    /\ cacheValid' = TRUE
    /\ screen' = {}
    /\ pc' = "header"
    /\ UNCHANGED <<critical_df, question, prompt, remoteCalls, answer, errorDetails>>

\* lines 50-52 and 55: the query raises
GetDataRaises ==
    /\ pc = "load"
    /\ ~cacheValid
    /\ df' = <<>>
    /\ connError' = TRUE
    /\ cacheValid' = TRUE
    /\ screen' = {"conn_error"}
    /\ pc' = "header"
    /\ UNCHANGED <<critical_df, question, prompt, remoteCalls, answer, errorDetails>>

\* a test for a missing frame, which get_data never returns
EmptyIsNone(d) == FALSE

\* line 62: df.empty
Empty(d) == d = <<>>

\* lines 57-64 with an empty df: title, warning, st.stop()
RenderBlocked ==
    /\ pc = "header"
    /\ Empty(df)
    /\ screen' = screen \cup {"title", "no_data_warning"}
    /\ pc' = "stopped"
    /\ UNCHANGED <<df, connError, cacheValid, critical_df, question, prompt,
                   remoteCalls, answer, errorDetails>>

\* lines 109-122: the table and the export, or the success note
ReorderElements(c) ==
    IF c # <<>> THEN {"reorder_table", "csv_export"} ELSE {"no_critical_note"}

\* lines 57-122 with data: title, metrics, heatmap tab, reorder tab
RenderDashboard ==
    /\ pc = "header"
    /\ ~Empty(df)
    /\ critical_df' = CriticalRows(df)
    /\ screen' = screen \cup {"title", "metrics", "heatmap"}
                        \cup ReorderElements(critical_df')
    /\ pc' = "tab3"
    /\ UNCHANGED <<df, connError, cacheValid, question, prompt, remoteCalls,
                   answer, errorDetails>>

\* lines 130-132 with an empty input: the question block is skipped
AskNothing ==
    /\ pc = "tab3"
    /\ question' = ""
    /\ pc' = "sidebar"
    /\ UNCHANGED <<df, connError, cacheValid, screen, critical_df, prompt,
                   remoteCalls, answer, errorDetails>>

\* lines 130-158: the prompt is built and the one remote query is issued
Ask ==
    /\ pc = "tab3"
    /\ \E q \in Questions \ {""} :
         /\ question' = q
         /\ prompt' = <<HeadRows(critical_df, ContextRows), q>>
    /\ remoteCalls' = remoteCalls + 1
    /\ pc' = "requesting"
    /\ UNCHANGED <<df, connError, cacheValid, screen, critical_df, answer,
                   errorDetails>>

\* an except branch that issues the query a second time
FallbackRetry(e) ==
    /\ screen' = screen \cup {"fallback_warning", "answer", "error_expander"}
    /\ answer' = SimulatedAnswer
    /\ errorDetails' = e
    /\ remoteCalls' = remoteCalls + 1
    /\ pc' = "sidebar"
    /\ UNCHANGED <<df, connError, cacheValid, critical_df, question, prompt>>

\* an except branch that re-raises after the warning: the run ends there
FallbackHalts(e) ==
    /\ screen' = screen \cup {"fallback_warning", "answer", "error_expander"}
    /\ answer' = SimulatedAnswer
    /\ errorDetails' = e
    /\ pc' = "stopped"
    /\ UNCHANGED <<df, connError, cacheValid, critical_df, question, prompt,
                   remoteCalls>>

\* lines 166-170: the except branch
Fallback(e) ==
    /\ screen' = screen \cup {"fallback_warning", "answer", "error_expander"}
    /\ answer' = SimulatedAnswer
    /\ errorDetails' = e
    /\ pc' = "sidebar"
    /\ UNCHANGED <<df, connError, cacheValid, critical_df, question, prompt,
                   remoteCalls>>

\* lines 159-164
ShowRemote(text) ==
    /\ screen' = screen \cup {"ai_insight", "answer", "remote_label"}
    /\ answer' = RemoteAnswer(text)
    /\ pc' = "sidebar"
    /\ UNCHANGED <<df, connError, cacheValid, critical_df, question, prompt,
                   remoteCalls, errorDetails>>

\* line 159, result[0][0]: IndexError unless there is a row with a column
HasCell(result) == Len(result) > 0 /\ Len(result[1]) > 0

\* lines 158-170: run_query returns
RemoteReturns ==
    /\ pc = "requesting"
    /\ \E result \in RemoteResults :
         IF HasCell(result) THEN ShowRemote(result[1][1])
         ELSE Fallback("IndexError")

\* lines 158, 166-170: run_query raises
RemoteRaises ==
    /\ pc = "requesting"
    /\ \E e \in RemoteErrors : Fallback(e)

\* lines 173-178
Sidebar ==
    /\ pc = "sidebar"
    /\ screen' = screen \cup {"sidebar"}
    /\ pc' = "done"
    /\ UNCHANGED <<df, connError, cacheValid, critical_df, question, prompt,
                   remoteCalls, answer, errorDetails>>

\* a new script run: every script variable starts afresh; only the cache
\* entry of get_data outlives the run, until its ttl of line 23 passes
Rerun ==
    /\ pc \in {"done", "stopped"}
    /\ pc' = "load"
    /\ screen' = {}
    /\ critical_df' = <<>>
    /\ question' = ""
    /\ prompt' = <<>>
    /\ remoteCalls' = 0
    /\ answer' = NoAnswer
    /\ errorDetails' = NoError
    /\ \/ UNCHANGED <<df, connError, cacheValid>>
       \/ /\ cacheValid' = FALSE
          /\ df' = <<>>
          /\ connError' = FALSE

Next ==
    \/ GetDataCached
    \/ GetDataFetch
    \/ GetDataRaises
    \/ RenderBlocked
    \/ RenderDashboard
    \/ AskNothing
    \/ Ask
    \/ RemoteReturns
    \/ RemoteRaises
    \/ Sidebar
    \/ Rerun

Spec == Init /\ [][Next]_vars

----------------------------------------------------------------------------
(* Properties *)

Rows == DOMAIN df

\* a record the data model calls valid
ValidRecord(r) ==
    r.Current_Stock >= 0 /\ r.Lead_Time_Days > 0 /\ r.Daily_Usage_Avg > 0

Severity(s) == CASE s = "CRITICAL" -> 2 [] s = "WARNING" -> 1 [] s = "OK" -> 0

\* the state of the question of this run, read off the page and the script
QState ==
    IF "remote_label" \in screen THEN "ANSWERED_REMOTE"
    ELSE IF "fallback_warning" \in screen THEN "ANSWERED_FALLBACK"
    ELSE IF pc = "requesting" THEN "REQUESTING"
    ELSE "IDLE"

Terminal == {"ANSWERED_REMOTE", "ANSWERED_FALLBACK"}

Tab3Elements ==
    {"ai_insight", "answer", "remote_label", "fallback_warning", "error_expander"}

\* an answer a reader can use
NonEmptyAnswer(a) ==
    \/ a.kind \in {"simulated", "stable"}
    \/ a.kind = "remote" /\ a.text \notin {"", NULL}

\* a.Days_Runway < b.Days_Runway, both finite
RunwayBelow(a, b) ==
    a.Days_Runway.num * b.Days_Runway.den < b.Days_Runway.num * a.Days_Runway.den

\* index of the smallest Days_Runway, the first of them on a tie
MinRunwayIndex(c) ==
    CHOOSE i \in DOMAIN c :
        \A j \in DOMAIN c : /\ ~RunwayBelow(c[j], c[i])
                            /\ (j < i => RunwayBelow(c[i], c[j]))

(* C1: for every record with current_stock >= 0, lead_time_days > 0 and
   daily_usage_avg > 0 the status is CRITICAL exactly when days_runway <
   lead_time_days, WARNING exactly when lead_time_days <= days_runway <
   2*lead_time_days and OK exactly when days_runway >= 2*lead_time_days; so
   days_runway = lead_time_days is WARNING and days_runway =
   2*lead_time_days is OK. *)
C1_StatusThresholds ==
    \A i \in Rows :
        LET r == df[i]
            n == r.Days_Runway.num
            d == r.Days_Runway.den
            l == r.Lead_Time_Days
        IN  ValidRecord(r) =>
              /\ d > 0
              /\ (r.Status = "CRITICAL") = (n < l * d)
              /\ (r.Status = "WARNING") = (l * d <= n /\ n < 2 * l * d)
              /\ (r.Status = "OK") = (n >= 2 * l * d)
              /\ (r.Current_Stock = l * r.Daily_Usage_Avg => r.Status = "WARNING")
              /\ (r.Current_Stock = 2 * l * r.Daily_Usage_Avg => r.Status = "OK")

\* both boundaries in one DataFrame: a runway equal to the lead time, and a
\* runway equal to twice the lead time
C1_Witness ==
    \E i, j \in Rows :
        /\ ValidRecord(df[i]) /\ ValidRecord(df[j])
        /\ df[i].Current_Stock = df[i].Lead_Time_Days * df[i].Daily_Usage_Avg
        /\ df[i].Status = "WARNING"
        /\ df[j].Current_Stock = 2 * df[j].Lead_Time_Days * df[j].Daily_Usage_Avg
        /\ df[j].Status = "OK"

(* C2: when the remote call fails, the answer shown names the location and
   item, with current stock and suggested reorder, of the critical record
   with the smallest days_runway (first on a tie), or is the fixed "all
   stable" sentence when there is no critical record; the source label is
   that of the fallback. *)
C2_FallbackFromCritical ==
    "fallback_warning" \in screen =>
        IF critical_df # <<>>
        THEN LET m == critical_df[MinRunwayIndex(critical_df)]
             IN  /\ m.Location \in answer.locations
                 /\ m.Item \in answer.items
                 /\ m.Current_Stock \in answer.stocks
                 /\ m.Suggested_Reorder \in answer.reorders
        ELSE answer.kind = "stable"

(* C3: a record whose daily_usage_avg is 0 makes the enrichment fail with
   InvalidUsage, so no enriched record has a usage of 0, and no enriched
   record with an infinite, undefined or negative days_runway is produced
   or classified. *)
C3_NoBadRunway ==
    \A i \in Rows :
        /\ df[i].Daily_Usage_Avg # 0
        /\ df[i].Days_Runway.den # 0
        /\ df[i].Days_Runway.num >= 0

\* one step of the question's state machine
C4_Step ==
    /\ \/ QState' = QState
       \/ <<QState, QState'>> \in
            {<<"IDLE", "REQUESTING">>,
             <<"REQUESTING", "ANSWERED_REMOTE">>,
             <<"REQUESTING", "ANSWERED_FALLBACK">>}
       \/ QState \in Terminal /\ QState' = "IDLE" /\ pc' = "load"
    /\ (QState = "REQUESTING" => QState' \in Terminal)
    /\ remoteCalls' = (IF QState' = "IDLE" THEN 0 ELSE 1)
    /\ ~({"remote_label", "fallback_warning"} \subseteq screen')
    /\ (question' # "" => QState' # "IDLE")
    /\ (question' # "" /\ pc' \in {"sidebar", "done"} => QState' \in Terminal)
    /\ (pc' = "load" =>
            /\ question' = "" /\ prompt' = <<>> /\ answer' = NoAnswer
            /\ errorDetails' = NoError /\ screen' = {})

(* C4: every submitted question goes IDLE -> REQUESTING -> exactly one of
   ANSWERED_REMOTE and ANSWERED_FALLBACK: the remote call is issued exactly
   once with no retry, the step out of REQUESTING ends in a terminal state
   whether the call returns or raises, the two terminal states are never
   both reached, and the next run starts with nothing of the question
   left. *)
C4_QuestionStateMachine == [][C4_Step]_vars

\* a run that asked once, fell back and ran to its end
C4_Witness ==
    pc = "done" /\ QState = "ANSWERED_FALLBACK" /\ remoteCalls = 1 /\ question # ""

(* C5: the answer presented is a non-empty text with the label of the path
   that produced it, and an empty or malformed remote result (no rows, a
   row whose text is empty or null) is answered through the fallback path,
   never as a remote answer. *)
C5_NonEmptyLabelled ==
    /\ (QState \in Terminal => "answer" \in screen /\ NonEmptyAnswer(answer))
    /\ ("remote_label" \in screen =>
            answer.kind = "remote" /\ answer.text \notin {"", NULL})

(* C6 as stated: when the remote call fails the error is never shown; the
   fallback path outputs only the fallback answer and the path label, and
   the run goes on to the sidebar. *)
C6_ErrorNeverShown ==
    "fallback_warning" \in screen =>
        /\ errorDetails = NoError
        /\ screen \cap Tab3Elements = {"fallback_warning", "answer"}
        /\ pc \in {"sidebar", "done"}
        /\ (pc = "done" => "sidebar" \in screen)

(* C6 amended: when the remote call fails the fallback path outputs the
   fallback warning (the path label), the simulated answer and a "Show
   Error Details" expander that holds the error; the error is on the page
   nowhere else, and the run goes on to the sidebar. *)
C6_ErrorOnlyInExpander ==
    /\ "fallback_warning" \in screen =>
        /\ errorDetails # NoError
        /\ screen \cap Tab3Elements = {"fallback_warning", "answer", "error_expander"}
        /\ answer = SimulatedAnswer
        /\ pc \in {"sidebar", "done"}
        /\ (pc = "done" => "sidebar" \in screen)
    /\ errorDetails # NoError =>
        "fallback_warning" \in screen /\ "error_expander" \in screen

\* a run whose remote call raised and that still rendered the sidebar
C6_Witness ==
    /\ pc = "done" /\ errorDetails \in RemoteErrors
    /\ "error_expander" \in screen /\ "sidebar" \in screen

(* C7: when the fetch raises or returns no rows the refresh ends with the
   blocking notice and nothing else of the dashboard: no metrics, no
   heatmap, no reorder list or export, and no remote call. *)
C7_BlockedOnNoData ==
    /\ connError => Empty(df)
    /\ Empty(df) =>
        /\ pc \in {"load", "header", "stopped"}
        /\ screen \subseteq BlockedPage
        /\ remoteCalls = 0
        /\ answer = NoAnswer
        /\ (pc = "stopped" => "no_data_warning" \in screen)
    /\ pc = "stopped" => Empty(df)

\* the fetch raised and the run stopped at the notice
C7_Witness ==
    pc = "stopped" /\ connError /\ screen = BlockedPage

(* C8: of two records with the same daily_usage_avg > 0 and the same
   lead_time_days > 0, the one with the smaller or equal current_stock has
   a status at least as severe (CRITICAL > WARNING > OK). *)
C8_StatusMonotonic ==
    \A i, j \in Rows :
        (/\ df[i].Daily_Usage_Avg = df[j].Daily_Usage_Avg
         /\ df[i].Daily_Usage_Avg > 0
         /\ df[i].Lead_Time_Days = df[j].Lead_Time_Days
         /\ df[i].Lead_Time_Days > 0
         /\ df[i].Current_Stock <= df[j].Current_Stock)
        => Severity(df[i].Status) >= Severity(df[j].Status)

\* two such records whose stocks and tiers both differ
C8_Witness ==
    \E i, j \in Rows :
        /\ df[i].Daily_Usage_Avg = df[j].Daily_Usage_Avg
        /\ df[i].Lead_Time_Days = df[j].Lead_Time_Days
        /\ 0 <= df[i].Current_Stock
        /\ df[i].Current_Stock < df[j].Current_Stock
        /\ Severity(df[i].Status) > Severity(df[j].Status)

(* C9: for every record with current_stock >= 0, lead_time_days > 0 and
   daily_usage_avg > 0, days_runway = current_stock / daily_usage_avg and
   suggested_reorder = floor(3 * lead_time_days * daily_usage_avg / 2), and
   both are >= 0. *)
C9_RunwayAndReorder ==
    \A i \in Rows :
        LET r == df[i]
            p == 3 * r.Lead_Time_Days * r.Daily_Usage_Avg
        IN  ValidRecord(r) =>
              /\ r.Days_Runway.den > 0
              /\ r.Days_Runway.num * r.Daily_Usage_Avg
                    = r.Current_Stock * r.Days_Runway.den
              /\ 2 * r.Suggested_Reorder <= p
              /\ p < 2 * r.Suggested_Reorder + 2
              /\ r.Days_Runway.num >= 0
              /\ r.Suggested_Reorder >= 0

\* a record whose runway is not a whole number and whose buffered demand
\* has a half to cut off
C9_Witness ==
    \E i \in Rows :
        /\ ValidRecord(df[i])
        /\ df[i].Days_Runway.den > 1
        /\ (3 * df[i].Lead_Time_Days * df[i].Daily_Usage_Avg) % 2 = 1

(* C10: for every row get_data loads, the usage derived from the stock is
   an integer >= 1, in 1..9 when Current_Stock < 50 and in 10..49
   otherwise, so Days_Runway is never a division by zero. *)
C10_UsageRange ==
    \A i \in Rows :
        /\ df[i].Daily_Usage_Avg >= 1
        /\ (df[i].Current_Stock < 50 => df[i].Daily_Usage_Avg \in 1..9)
        /\ (df[i].Current_Stock >= 50 => df[i].Daily_Usage_Avg \in 10..49)
        /\ df[i].Days_Runway.den # 0

\* both buckets in one DataFrame, each at an end of its range
C10_Witness ==
    \E i, j \in Rows :
        /\ df[i].Current_Stock < 50 /\ df[i].Daily_Usage_Avg = 9
        /\ df[j].Current_Stock >= 50 /\ df[j].Daily_Usage_Avg = 49

====
